---- MODULE Spec2Model ----
(***************************************************************************)
(* Model of src/minesweeper.py: the Minesweeper board (the environment     *)
(* that answers with true neighbouring-mine counts), the Sentence class    *)
(* and the MinesweeperAI knowledge base with its deduction entry point     *)
(* add_knowledge and the two move selectors.                               *)
(*                                                                         *)
(* A cell is a pair <<i, j>>.  A Sentence object is a record               *)
(* [cells, count].  The list self.knowledge is a sequence of such records; *)
(* an object reference to a member of the list is its index.  Python's     *)
(* None is the empty tuple.  add_knowledge is split at every call of       *)
(* MinesweeperAI.mark_mine / mark_safe, so that the states between two     *)
(* marks are states of the model.  The iteration order of a Python set is  *)
(* not fixed by the language: the marks of one for-loop over a set happen  *)
(* in any order.  A staged Sentence of new_inferences that the             *)
(* deduplication keeps is one object with a member of self.knowledge:      *)
(* staged_at holds where, and a mark changes both.                         *)
(***************************************************************************)
EXTENDS Integers, FiniteSets, Sequences

\* Largest board height, board width, board area, number of mines and number
\* of add_knowledge calls that are explored.
MaxHeight == 3
MaxWidth == 3
MaxCells == 9
MaxMines == 2
MaxCalls == 3
\* Largest board area explored when the driver marks cells itself.
MaxMarkCells == 4

VARIABLES
    height,          \* MinesweeperAI.height (= Minesweeper.height)
    width,           \* MinesweeperAI.width (= Minesweeper.width)
    board,           \* Minesweeper.mines: the cells (i, j) with board[i][j] True
    moves_made,      \* MinesweeperAI.moves_made
    mines,           \* MinesweeperAI.mines
    safes,           \* MinesweeperAI.safes
    knowledge,       \* MinesweeperAI.knowledge
    pc,              \* position inside add_knowledge, "idle" between calls
    cell,            \* argument `cell` of the last call that takes one
    count,           \* local `count` of the running add_knowledge call
    sentence,        \* local `sentence`: index in knowledge of the new Sentence
    idx,             \* position of the running `for s in self.knowledge` loop
    new_inferences,  \* local list new_inferences
    staged_at,       \* for each member of new_inferences, the index in knowledge
                     \* of that same object after line 248, 0 when it is none
    final_knowledge, \* local list final_knowledge, as indices into knowledge
    pending,         \* cells the running for-loop over a set has still to mark
    kind,            \* "safe" / "mine": which mark that for-loop applies
    op,              \* name of the last method called on the agent
    ret,             \* what that call returned
    calls            \* number of add_knowledge / mark_mine / mark_safe calls made

vars == <<height, width, board, moves_made, mines, safes, knowledge, pc, cell,
          count, sentence, idx, new_inferences, staged_at, final_knowledge,
          pending, kind, op, ret, calls>>

None == <<>>

----------------------------------------------------------------------------
(* class Minesweeper *)

\* The cells of an h x w board.
Cells(h, w) == (0 .. (h - 1)) \X (0 .. (w - 1))

\* `0 <= i < self.height and 0 <= j < self.width`
InBounds(c, h, w) == 0 <= c[1] /\ c[1] < h /\ 0 <= c[2] /\ c[2] < w

Neighborhood_orthogonal(c) ==
    {<<c[1] - 1, c[2]>>, <<c[1] + 1, c[2]>>, <<c[1], c[2] - 1>>, <<c[1], c[2] + 1>>}

\* The two nested range loops around a cell, the cell itself skipped.
Neighborhood(c) ==
    {<<i, j>> : i \in (c[1] - 1) .. (c[1] + 1), j \in (c[2] - 1) .. (c[2] + 1)}
        \ {c}

\* Minesweeper.nearby_mines
nearby_mines(b, h, w, c) ==
    Cardinality({n \in Neighborhood(c) : InBounds(n, h, w) /\ n \in b})

----------------------------------------------------------------------------
(* class Sentence *)

Sentence(cells, cnt) == [cells |-> cells, count |-> cnt]

known_mines_nonempty(s) ==
    IF s.cells /= {} /\ Cardinality(s.cells) = s.count THEN <<s.cells>> ELSE None

\* Sentence.known_mines: self.cells, or None (the function falls off its end)
known_mines(s) == IF Cardinality(s.cells) = s.count THEN <<s.cells>> ELSE None

\* Sentence.known_safes
known_safes(s) == IF s.count = 0 THEN <<s.cells>> ELSE None

\* Python truth value of what known_mines / known_safes return: None and the
\* empty set are both false.
Truthy(r) == r /= None /\ r[1] /= {}

Sentence_mark_mine_nodec(s, c) == [s EXCEPT !.cells = @ \ {c}]

Sentence_mark_mine_always_dec(s, c) ==
    [cells |-> s.cells \ {c}, count |-> s.count - 1]

\* Sentence.mark_mine
Sentence_mark_mine(s, c) ==
    IF c \in s.cells
    THEN [cells |-> s.cells \ {c}, count |-> s.count - 1]
    ELSE s

\* Sentence.mark_safe
Sentence_mark_safe(s, c) == [s EXCEPT !.cells = @ \ {c}]

----------------------------------------------------------------------------
(* class MinesweeperAI: the helpers *)

\* The part of the agent that mark_mine / mark_safe work on.
KB == [mines |-> mines, safes |-> safes, knowledge |-> knowledge]

mark_mine_unsafes(kb, c) ==
    [mines |-> kb.mines \cup {c},
     safes |-> kb.safes \ {c},
     knowledge |-> [n \in DOMAIN kb.knowledge |->
                        Sentence_mark_mine(kb.knowledge[n], c)]]

\* MinesweeperAI.mark_mine
mark_mine(kb, c) ==
    [mines |-> kb.mines \cup {c},
     safes |-> kb.safes,
     knowledge |-> [n \in DOMAIN kb.knowledge |->
                        Sentence_mark_mine(kb.knowledge[n], c)]]

mark_safe_forgets(kb, c) ==
    [mines |-> kb.mines,
     safes |-> kb.safes,
     knowledge |-> [n \in DOMAIN kb.knowledge |->
                        Sentence_mark_safe(kb.knowledge[n], c)]]

\* MinesweeperAI.mark_safe
mark_safe(kb, c) ==
    [mines |-> kb.mines,
     safes |-> kb.safes \cup {c},
     knowledge |-> [n \in DOMAIN kb.knowledge |->
                        Sentence_mark_safe(kb.knowledge[n], c)]]

cell_neighbors_noadjust(c, cnt, h, w, sf, mn) ==
    [neighbors |-> {n \in Neighborhood(c) :
                        InBounds(n, h, w) /\ n \notin sf /\ n \notin mn},
     count |-> cnt]

\* MinesweeperAI.cell_neighbors
cell_neighbors(c, cnt, h, w, sf, mn) ==
    [neighbors |-> {n \in Neighborhood(c) :
                        InBounds(n, h, w) /\ n \notin sf /\ n \notin mn},
     count |-> cnt - Cardinality({n \in Neighborhood(c) : n \in mn})]

Inference_keepcount(sup, sub) ==
    LET setDiff == sup.cells \ sub.cells IN
    IF sup.count = sub.count
    THEN [kind |-> "safe", cells |-> setDiff, count |-> 0]
    ELSE IF Cardinality(setDiff) = sup.count - sub.count
    THEN [kind |-> "mine", cells |-> setDiff, count |-> 0]
    ELSE [kind |-> "infer", cells |-> setDiff, count |-> sup.count]

Inference_swapped(sup, sub) ==
    LET setDiff == sup.cells \ sub.cells IN
    IF sup.count = sub.count
    THEN [kind |-> "mine", cells |-> setDiff, count |-> 0]
    ELSE IF Cardinality(setDiff) = sup.count - sub.count
    THEN [kind |-> "safe", cells |-> setDiff, count |-> 0]
    ELSE [kind |-> "infer", cells |-> setDiff, count |-> sup.count - sub.count]

\* The body of either issuperset branch of add_knowledge, for the sentence
\* sup whose cells contain those of sub: mark the difference safe, mark it
\* mines, or stage Sentence(setDiff, sup.count - sub.count).
Inference(sup, sub) ==
    LET setDiff == sup.cells \ sub.cells IN
    IF sup.count = sub.count
    THEN [kind |-> "safe", cells |-> setDiff, count |-> 0]
    ELSE IF Cardinality(setDiff) = sup.count - sub.count
    THEN [kind |-> "mine", cells |-> setDiff, count |-> 0]
    ELSE [kind |-> "infer", cells |-> setDiff, count |-> sup.count - sub.count]

\* One iteration of the loop `for s in self.knowledge` of steps 4 & 5.
Resolution(s, sent) ==
    IF s = sent
    THEN [kind |-> "skip", cells |-> {}, count |-> 0]
    ELSE IF sent.cells \subseteq s.cells
    THEN Inference(s, sent)
    ELSE IF s.cells \subseteq sent.cells
    THEN Inference(sent, s)
    ELSE [kind |-> "skip", cells |-> {}, count |-> 0]

\* The deduplication loop: the first occurrence of every value is kept.
RECURSIVE unique_knowledge(_)
unique_knowledge(seq) ==
    IF seq = <<>>
    THEN <<>>
    ELSE LET u == unique_knowledge(SubSeq(seq, 1, Len(seq) - 1))
             s == seq[Len(seq)]
         IN IF \E n \in DOMAIN u : u[n] = s THEN u ELSE Append(u, s)

\* The index in unique_knowledge(seq) of the object seq[k], 0 when the loop
\* does not keep it (an equal member comes before it).
unique_position(seq, k) ==
    IF \E j \in 1 .. (k - 1) : seq[j] = seq[k]
    THEN 0
    ELSE Cardinality({i \in 1 .. k : \A j \in 1 .. (i - 1) : seq[j] /= seq[i]})

make_safe_move_all(sf, mv) == IF sf = {} THEN {None} ELSE sf

\* MinesweeperAI.make_safe_move: the values it can return (set.pop() takes
\* an arbitrary element).
make_safe_move(sf, mv) ==
    LET safe_moves == sf \ mv IN
    IF safe_moves = {} THEN {None} ELSE safe_moves

make_safe_move_pops_safes(sf, mv, r) ==
    [safes |-> sf \ {r}, moves_made |-> mv]

\* MinesweeperAI.make_safe_move: self.safes and self.moves_made after it has
\* returned r.  Line 292 builds a new set and line 297 pops from that set.
make_safe_move_effect(sf, mv, r) ==
    [safes |-> sf, moves_made |-> mv]

make_random_move_with_mines(h, w, mv, mn) ==
    LET filtered_board == Cells(h, w) \ mv IN
    IF Cardinality(filtered_board) > 0 THEN filtered_board ELSE {None}

\* MinesweeperAI.make_random_move: the values it can return.
make_random_move(h, w, mv, mn) ==
    LET filtered_board == (Cells(h, w) \ mv) \ mn IN
    IF Cardinality(filtered_board) > 0 THEN filtered_board ELSE {None}

\* MinesweeperAI.make_random_move: self.moves_made and self.mines after it
\* has returned.  Line 314 builds new sets, no attribute is assigned.
make_random_move_effect(mv, mn, r) ==
    [moves_made |-> mv, mines |-> mn]

----------------------------------------------------------------------------
(* The state after Minesweeper(height, width, mines) and                   *)
(* MinesweeperAI(height, width).                                           *)

Init ==
    /\ height \in 1 .. MaxHeight
    /\ width \in {w \in 1 .. MaxWidth : height * w <= MaxCells}
    /\ board \in {b \in SUBSET Cells(height, width) : Cardinality(b) <= MaxMines}
    /\ moves_made = {}
    /\ mines = {}
    /\ safes = {}
    /\ knowledge = <<>>
    /\ pc = "idle"
    /\ cell = None
    /\ count = 0
    /\ sentence = 0
    /\ idx = 0
    /\ new_inferences = <<>>
    /\ staged_at = <<>>
    /\ final_knowledge = <<>>
    /\ pending = {}
    /\ kind = "none"
    /\ op = "init"
    /\ ret = None
    /\ calls = 0

env == <<height, width, board>>
locals == <<count, sentence, idx, new_inferences, staged_at, final_knowledge,
            pending, kind>>

----------------------------------------------------------------------------
(* add_knowledge *)

\* The driver reveals a cell that is not a mine and calls
\* add_knowledge(cell, nearby_mines(cell)); line 198.
add_knowledge_entry(c) ==
    /\ pc = "idle"
    /\ c \in Cells(height, width) \ board
    /\ calls' = calls + 1
    /\ cell' = c
    /\ count' = nearby_mines(board, height, width, c)
    /\ op' = "add_knowledge"
    /\ ret' = None
    /\ moves_made' = moves_made \cup {c}
    /\ pc' = "mark_cell"
    /\ UNCHANGED <<env, mines, safes, knowledge, sentence, idx, new_inferences,
                   staged_at, final_knowledge, pending, kind>>

\* add_knowledge, at most MaxCalls calls in a run.
add_knowledge(c) ==
    /\ calls < MaxCalls
    /\ add_knowledge_entry(c)

\* add_knowledge for a cell that has not been revealed before.
add_knowledge_once(c) ==
    /\ c \notin moves_made
    /\ add_knowledge_entry(c)

\* Line 200: self.mark_safe(cell)
MarkCell ==
    /\ pc = "mark_cell"
    /\ LET kb == mark_safe(KB, cell) IN
        /\ mines' = kb.mines
        /\ safes' = kb.safes
        /\ knowledge' = kb.knowledge
    /\ pc' = "new_sentence"
    /\ UNCHANGED <<env, moves_made, cell, locals, op, ret, calls>>

\* Lines 203-208: build the new sentence, append it, start the loop.
NewSentence ==
    /\ pc = "new_sentence"
    /\ LET r == cell_neighbors(cell, count, height, width, safes, mines) IN
        /\ count' = r.count
        /\ knowledge' = Append(knowledge, Sentence(r.neighbors, r.count))
    /\ sentence' = Len(knowledge) + 1
    /\ new_inferences' = <<>>
    /\ idx' = 1
    /\ pc' = "resolve"
    /\ UNCHANGED <<env, moves_made, mines, safes, cell, staged_at,
                   final_knowledge, pending, kind, op, ret, calls>>

\* Lines 209-241: one iteration of the loop, up to its first mark.
Resolve ==
    /\ pc = "resolve"
    /\ idx <= Len(knowledge)
    /\ LET r == Resolution(knowledge[idx], knowledge[sentence]) IN
        /\ new_inferences' = IF r.kind = "infer"
                             THEN Append(new_inferences, Sentence(r.cells, r.count))
                             ELSE new_inferences
        /\ IF r.kind \in {"safe", "mine"} /\ r.cells /= {}
           THEN /\ pending' = r.cells
                /\ kind' = r.kind
                /\ pc' = "resolve_mark"
                /\ idx' = idx
           ELSE /\ idx' = idx + 1
                /\ UNCHANGED <<pending, kind, pc>>
    /\ UNCHANGED <<env, moves_made, mines, safes, knowledge, cell, count,
                   sentence, staged_at, final_knowledge, op, ret, calls>>

\* Lines 216-217, 220-221, 231-232, 235-236, 254-255, 258-259: one iteration
\* of a loop `for x in <set>: self.mark_safe(x)` / `self.mark_mine(x)`.
Mark(c) ==
    /\ pc \in {"resolve_mark", "extract_mark"}
    /\ c \in pending
    /\ LET kb == IF kind = "mine" THEN mark_mine(KB, c) ELSE mark_safe(KB, c) IN
        /\ mines' = kb.mines
        /\ safes' = kb.safes
        /\ knowledge' = kb.knowledge
        \* after line 243 a staged Sentence is a member of self.knowledge too
        /\ new_inferences' =
               [n \in DOMAIN new_inferences |->
                   IF pc = "extract_mark" /\ staged_at[n] /= 0
                   THEN kb.knowledge[staged_at[n]]
                   ELSE new_inferences[n]]
    /\ pending' = pending \ {c}
    /\ IF pending' /= {}
       THEN UNCHANGED <<pc, idx, final_knowledge, kind>>
       ELSE /\ kind' = "none"
            /\ idx' = idx + 1
            /\ IF pc = "resolve_mark"
               THEN /\ pc' = "resolve"
                    /\ UNCHANGED final_knowledge
               ELSE \* final_knowledge.pop(-1)
                    /\ pc' = "extract"
                    /\ final_knowledge' =
                           SubSeq(final_knowledge, 1, Len(final_knowledge) - 1)
    /\ UNCHANGED <<env, moves_made, cell, count, sentence, staged_at,
                   op, ret, calls>>

\* Lines 243-250: extend by the staged sentences, deduplicate.
Dedup ==
    /\ pc = "resolve"
    /\ idx > Len(knowledge)
    /\ knowledge' = unique_knowledge(knowledge \o new_inferences)
    /\ staged_at' = [n \in DOMAIN new_inferences |->
                        unique_position(knowledge \o new_inferences,
                                        Len(knowledge) + n)]
    /\ final_knowledge' = <<>>
    /\ idx' = 1
    /\ pc' = "extract"
    /\ UNCHANGED <<env, moves_made, mines, safes, cell, count, sentence,
                   new_inferences, pending, kind, op, ret, calls>>

\* Lines 251-260: one iteration of the extraction loop, up to its first mark.
Extract ==
    /\ pc = "extract"
    /\ idx <= Len(knowledge)
    /\ LET s == knowledge[idx] IN
        /\ final_knowledge' = Append(final_knowledge, idx)
        /\ IF Truthy(known_mines(s))
           THEN /\ pending' = known_mines(s)[1]
                /\ kind' = "mine"
                /\ pc' = "extract_mark"
                /\ idx' = idx
           ELSE IF Truthy(known_safes(s))
           THEN /\ pending' = known_safes(s)[1]
                /\ kind' = "safe"
                /\ pc' = "extract_mark"
                /\ idx' = idx
           ELSE /\ idx' = idx + 1
                /\ UNCHANGED <<pending, kind, pc>>
    /\ UNCHANGED <<env, moves_made, mines, safes, knowledge, cell, count,
                   sentence, new_inferences, staged_at, op, ret, calls>>

\* Line 261 and the return: the locals are gone.
Return ==
    /\ pc = "extract"
    /\ idx > Len(knowledge)
    /\ knowledge' = [n \in 1 .. Len(final_knowledge) |-> knowledge[final_knowledge[n]]]
    /\ pc' = "idle"
    /\ count' = 0
    /\ sentence' = 0
    /\ idx' = 0
    /\ new_inferences' = <<>>
    /\ staged_at' = <<>>
    /\ final_knowledge' = <<>>
    /\ UNCHANGED <<env, moves_made, mines, safes, cell, pending, kind, op, ret,
                   calls>>

----------------------------------------------------------------------------
(* The move selectors *)

MakeSafeMove ==
    /\ pc = "idle"
    /\ op' = "make_safe_move"
    /\ ret' \in make_safe_move(safes, moves_made)
    /\ LET e == make_safe_move_effect(safes, moves_made, ret') IN
        /\ safes' = e.safes
        /\ moves_made' = e.moves_made
    /\ UNCHANGED <<env, mines, knowledge, pc, cell, locals, calls>>

MakeRandomMove ==
    /\ pc = "idle"
    /\ op' = "make_random_move"
    /\ ret' \in make_random_move(height, width, moves_made, mines)
    /\ LET e == make_random_move_effect(moves_made, mines, ret') IN
        /\ moves_made' = e.moves_made
        /\ mines' = e.mines
    /\ UNCHANGED <<env, safes, knowledge, pc, cell, locals, calls>>

----------------------------------------------------------------------------

Next ==
    \/ \E c \in Cells(MaxHeight, MaxWidth) : add_knowledge(c)
    \/ MarkCell
    \/ NewSentence
    \/ Resolve
    \/ \E c \in Cells(MaxHeight, MaxWidth) : Mark(c)
    \/ Dedup
    \/ Extract
    \/ Return
    \/ MakeSafeMove
    \/ MakeRandomMove

Spec == Init /\ [][Next]_vars

----------------------------------------------------------------------------
(* The driver also calls MinesweeperAI.mark_mine / mark_safe itself, with   *)
(* any cell of the board.                                                  *)

InitMarks ==
    /\ Init
    /\ height * width <= MaxMarkCells

MarkMineCall(c) ==
    /\ pc = "idle"
    /\ calls < MaxCalls
    /\ c \in Cells(height, width)
    /\ LET kb == mark_mine(KB, c) IN
        /\ mines' = kb.mines
        /\ safes' = kb.safes
        /\ knowledge' = kb.knowledge
    /\ calls' = calls + 1
    /\ cell' = c
    /\ op' = "mark_mine"
    /\ ret' = None
    /\ UNCHANGED <<env, moves_made, pc, locals>>

MarkSafeCall(c) ==
    /\ pc = "idle"
    /\ calls < MaxCalls
    /\ c \in Cells(height, width)
    /\ LET kb == mark_safe(KB, c) IN
        /\ mines' = kb.mines
        /\ safes' = kb.safes
        /\ knowledge' = kb.knowledge
    /\ calls' = calls + 1
    /\ cell' = c
    /\ op' = "mark_safe"
    /\ ret' = None
    /\ UNCHANGED <<env, moves_made, pc, locals>>

NextMarks ==
    \/ Next
    \/ \E c \in Cells(MaxHeight, MaxWidth) : MarkMineCall(c)
    \/ \E c \in Cells(MaxHeight, MaxWidth) : MarkSafeCall(c)

SpecMarks == InitMarks /\ [][NextMarks]_vars

----------------------------------------------------------------------------
(* The scenario of the 3x3 board whose only mine is (0, 0): every other    *)
(* cell is revealed once, in any order.                                    *)

InitScenario ==
    /\ height = 3
    /\ width = 3
    /\ board = {<<0, 0>>}
    /\ moves_made = {}
    /\ mines = {}
    /\ safes = {}
    /\ knowledge = <<>>
    /\ pc = "idle"
    /\ cell = None
    /\ count = 0
    /\ sentence = 0
    /\ idx = 0
    /\ new_inferences = <<>>
    /\ staged_at = <<>>
    /\ final_knowledge = <<>>
    /\ pending = {}
    /\ kind = "none"
    /\ op = "init"
    /\ ret = None
    /\ calls = 0

NextScenario ==
    \/ \E c \in Cells(3, 3) : add_knowledge_once(c)
    \/ MarkCell
    \/ NewSentence
    \/ Resolve
    \/ \E c \in Cells(3, 3) : Mark(c)
    \/ Dedup
    \/ Extract
    \/ Return

SpecScenario == InitScenario /\ [][NextScenario]_vars

----------------------------------------------------------------------------
(* Properties.  Truthful observations are built into add_knowledge: the    *)
(* cell is not a mine of the board and the count is nearby_mines of it.    *)

Sentences == {knowledge[n] : n \in DOMAIN knowledge}
Staged == {new_inferences[n] : n \in DOMAIN new_inferences}
TrueOfBoard(s) == Cardinality(s.cells \cap board) = s.count
Trivial(s) == s.count = 0 \/ s.count = Cardinality(s.cells)

\* C1: soundness of conclusions.  In every state reached, every cell in
\* mines is a real mine of the board and no cell in safes is a real mine.
C1_SoundConclusions == mines \subseteq board /\ safes \cap board = {}

\* A call has returned with a mine concluded and with safe cells concluded
\* that were never revealed.
C1_Witness ==
    /\ pc = "idle"
    /\ op = "add_knowledge"
    /\ mines /= {}
    /\ safes \ moves_made /= {}

\* C2: soundness of sentences.  Every sentence of the knowledge base, and
\* every sentence derived by subset resolution and staged, is true of the
\* real board: exactly `count` of its cells are real mines.
C2_SoundSentences == \A s \in Sentences \cup Staged : TrueOfBoard(s)

\* Subset resolution has derived a sentence that still holds a real mine,
\* and the sentence has been moved into the knowledge base.
C2_Witness ==
    /\ pc = "extract"
    /\ new_inferences /= <<>>
    /\ \E n \in DOMAIN new_inferences :
         /\ new_inferences[n].count > 0
         /\ new_inferences[n] \in Sentences

\* C3: mines and safes are disjoint in every state, the states inside one
\* add_knowledge call included.
C3_Disjoint == mines \cap safes = {}

\* In the middle of a loop of marks, with both sets non-empty.
C3_Witness ==
    /\ pc \in {"resolve_mark", "extract_mark"}
    /\ pending /= {}
    /\ mines /= {}
    /\ safes /= {}

\* C4: every sentence held by the knowledge base has
\* 0 <= count <= |cells|, after every single mark and at the end of every
\* add_knowledge.
C4_CountInRange ==
    \A s \in Sentences : 0 <= s.count /\ s.count <= Cardinality(s.cells)

\* Between two mark_mine calls of one loop: the first has decremented the
\* count of a sentence that still has a cell and a positive count.
C4_Witness ==
    /\ pc = "extract_mark"
    /\ kind = "mine"
    /\ mines /= {}
    /\ pending /= {}
    /\ knowledge[idx].cells = pending
    /\ knowledge[idx].count = Cardinality(pending)
    /\ mines \cap pending = {}

\* C5: at the end of every add_knowledge call no sentence of the knowledge
\* base contains a cell that is in mines or in safes.
C5_NoKnownCellInSentence ==
    pc = "idle" => \A s \in Sentences : s.cells \cap (mines \cup safes) = {}

\* C6: at the end of every add_knowledge call no sentence with at least one
\* cell is trivial (count = 0 or count = |cells|).
C6_NoTrivialSentence ==
    pc = "idle" => \A s \in Sentences : s.cells /= {} => ~Trivial(s)

\* C7: at the end of every add_knowledge call no sentence of the knowledge
\* base has an empty cell set.
C7_NoEmptySentence ==
    pc = "idle" => \A s \in Sentences : s.cells /= {}

\* C8: after add_knowledge(cell, count) has returned, cell is in
\* moves_made, cell is in safes and cell is not in mines.
C8_ObservedCell ==
    (pc = "idle" /\ op = "add_knowledge") =>
        cell \in moves_made /\ cell \in safes /\ cell \notin mines

\* A call has returned that started from a knowledge base with a known mine
\* and earlier moves.
C8_Witness ==
    /\ pc = "idle"
    /\ op = "add_knowledge"
    /\ calls >= 2
    /\ mines /= {}
    /\ cell \in safes

\* C9: moves_made is a subset of safes in every state reached after any
\* sequence of add_knowledge, make_safe_move and make_random_move calls.
C9_MovesAreSafe == pc = "idle" => moves_made \subseteq safes

\* A move selector has been called after two observations.
C9_Witness ==
    /\ pc = "idle"
    /\ op \in {"make_safe_move", "make_random_move"}
    /\ Cardinality(moves_made) >= 2
    /\ ret /= None

\* C10: make_safe_move returns None exactly when safes minus moves_made is
\* empty, and otherwise a cell in safes that is not in moves_made.
C10_SafeMove ==
    op = "make_safe_move" =>
        /\ (ret = None) <=> (safes \ moves_made = {})
        /\ ret /= None => (ret \in safes /\ ret \notin moves_made)

\* make_safe_move has returned None although safes is not empty.
C10_Witness ==
    /\ op = "make_safe_move"
    /\ ret = None
    /\ safes /= {}

\* The board cells that are neither in moves_made nor in mines.
Eligible == {c \in Cells(height, width) : c \notin moves_made /\ c \notin mines}

\* C11: make_random_move returns None exactly when every board cell is in
\* moves_made or in mines, otherwise a cell within the board that is in
\* neither; every such cell is a possible result.
C11_RandomMove ==
    /\ op = "make_random_move" =>
        /\ (ret = None) <=> (Eligible = {})
        /\ ret /= None =>
            /\ 0 <= ret[1] /\ ret[1] < height /\ 0 <= ret[2] /\ ret[2] < width
            /\ ret \notin moves_made
            /\ ret \notin mines
    /\ pc = "idle" =>
        \A c \in Eligible : c \in make_random_move(height, width, moves_made, mines)

\* make_random_move has returned None on a board whose remaining cell is a
\* known mine.
C11_Witness ==
    /\ op = "make_random_move"
    /\ ret = None
    /\ mines /= {}
    /\ moves_made /= {}

\* The first call of a run was add_knowledge((2, 2), 0) on the 3x3 board
\* whose only mine is (0, 0), and it has returned.
C12_Scenario ==
    /\ height = 3
    /\ width = 3
    /\ board = {<<0, 0>>}
    /\ pc = "idle"
    /\ op = "add_knowledge"
    /\ calls = 1
    /\ cell = <<2, 2>>

\* C12, as stated: after add_knowledge((2, 2), 0) on the 3x3 board whose only
\* mine is (0, 0), from an empty knowledge base, every cell other than (2, 2)
\* is in safes.
C12_AllOthersSafe ==
    C12_Scenario => \A c \in Cells(3, 3) \ {<<2, 2>>} : c \in safes

\* C12, amended: after that call safes is (2, 2) and its three neighbours
\* (1, 1), (1, 2), (2, 1); no other cell is marked safe, no cell is marked a
\* mine and no sentence is left.
C12_NeighboursSafe ==
    C12_Scenario =>
        /\ safes = {<<1, 1>>, <<1, 2>>, <<2, 1>>, <<2, 2>>}
        /\ mines = {}
        /\ knowledge = <<>>

\* That call has returned and has marked (1, 1) safe.
C12_Witness == C12_Scenario /\ <<1, 1>> \in safes

\* In the state that mark_safe(c) / mark_mine(c) has left, the same call maps
\* mines, safes and the sentences to themselves.
C13_SecondCallNoOp ==
    /\ op = "mark_safe" => mark_safe(KB, cell) = KB
    /\ op = "mark_mine" => mark_mine(KB, cell) = KB

\* A step that is the same mark call as the call before it.
C13_SecondStepNoOp ==
    (/\ op \in {"mark_safe", "mark_mine"}
     /\ op' = op
     /\ cell' = cell
     /\ calls' = calls + 1)
        => UNCHANGED <<mines, safes, moves_made, knowledge>>

\* C13: calling mark_safe(c) twice in succession leaves mines, safes,
\* moves_made and every sentence as one call does, and so for mark_mine(c):
\* in the state one call has left, a second call with the same cell changes
\* nothing.
C13_Idempotent == [](C13_SecondCallNoOp) /\ [][C13_SecondStepNoOp]_vars

\* mark_mine(c) has been called for a cell of a sentence: the sentence has
\* lost the cell and one of its count.
C13_Witness ==
    /\ op = "mark_mine"
    /\ cell \in mines
    /\ cell \notin board
    /\ \E s \in Sentences : s.cells /= {} /\ Cardinality(s.cells \cap board) > s.count

\* C14: make_safe_move and make_random_move leave mines, safes, moves_made
\* and the sentence list unchanged, whether they return a cell or None.
C14_SelectorsReadOnly ==
    [][(pc = "idle" /\ op' \in {"make_safe_move", "make_random_move"})
        => UNCHANGED <<mines, safes, moves_made, knowledge>>]_vars

\* make_safe_move has returned a cell from a knowledge base that holds a
\* sentence.
C14_Witness ==
    /\ op = "make_safe_move"
    /\ ret /= None
    /\ knowledge /= <<>>

\* C15: at the end of every add_knowledge call knowledge contains no two
\* sentences with equal cell sets and equal counts.
C15_NoDuplicates ==
    pc = "idle" =>
        \A i, j \in DOMAIN knowledge : i /= j => knowledge[i] /= knowledge[j]

\* C16: the sentence appended by add_knowledge(cell, count) has as cells the
\* in-bounds cells around cell, other than cell, that are in neither safes
\* nor mines (cell itself already marked safe), and as count the reported
\* count minus the number of neighbours of cell that are in mines.
C16_NewSentence ==
    (pc = "resolve" /\ idx = 1) =>
        /\ cell \in safes
        /\ sentence = Len(knowledge)
        /\ knowledge[sentence].cells =
              {c \in Cells(height, width) \ (safes \cup mines \cup {cell}) :
                  /\ c[1] - cell[1] \in -1 .. 1
                  /\ c[2] - cell[2] \in -1 .. 1}
        /\ knowledge[sentence].count =
              Cardinality({c \in board :
                              /\ c /= cell
                              /\ c[1] - cell[1] \in -1 .. 1
                              /\ c[2] - cell[2] \in -1 .. 1})
              - Cardinality({c \in mines :
                              /\ c /= cell
                              /\ c[1] - cell[1] \in -1 .. 1
                              /\ c[2] - cell[2] \in -1 .. 1})

\* The new sentence of a cell that has a known mine and an unknown cell
\* among its neighbours.
C16_Witness ==
    /\ pc = "resolve"
    /\ idx = 1
    /\ knowledge[sentence].cells /= {}
    /\ \E c \in mines : c[1] - cell[1] \in -1 .. 1 /\ c[2] - cell[2] \in -1 .. 1

\* C17: on the 3x3 board whose only mine is (0, 0), once add_knowledge has
\* been called with the true count for all 8 other cells, in any order,
\* (0, 0) is in mines: mines equals the mine set of the board.
C17_MineFound ==
    (pc = "idle" /\ moves_made = Cells(3, 3) \ {<<0, 0>>}) => mines = board

\* All 8 cells have been revealed and (0, 0) is a known mine.
C17_Witness ==
    /\ pc = "idle"
    /\ Cardinality(moves_made) = 8
    /\ <<0, 0>> \in mines

\* C18: Sentence.mark_mine(cell) with cell in cells removes exactly that cell
\* and decreases count by exactly 1; Sentence.mark_safe(cell) with cell in
\* cells removes exactly that cell and keeps count; with a cell not in cells
\* both leave cells and count unchanged; neither increases |cells| or count.
C18_SentenceMutators ==
    \A s \in Sentences \cup Staged : \A c \in Cells(height, width) :
        LET m == Sentence_mark_mine(s, c)
            f == Sentence_mark_safe(s, c)
        IN /\ c \in s.cells =>
                /\ m.cells = s.cells \ {c} /\ m.count = s.count - 1
                /\ f.cells = s.cells \ {c} /\ f.count = s.count
           /\ c \notin s.cells => (m = s /\ f = s)
           /\ Cardinality(m.cells) <= Cardinality(s.cells) /\ m.count <= s.count
           /\ Cardinality(f.cells) <= Cardinality(s.cells) /\ f.count <= s.count

\* Marks of both kinds have been made and a sentence with several cells and
\* a mine among them is held.
C18_Witness ==
    /\ mines /= {}
    /\ safes /= {}
    /\ \E s \in Sentences : Cardinality(s.cells) >= 2 /\ s.count >= 1

\* C19: known_mines() returns a result, the full cell set, if and only if
\* count = |cells|; known_safes() returns a result, the full cell set, if
\* and only if count = 0; both return a result for the same sentence only
\* when cells is empty and count is 0.
C19_SentenceQueries ==
    \A s \in Sentences \cup Staged :
        /\ (known_mines(s) /= None) <=> (s.count = Cardinality(s.cells))
        /\ known_mines(s) /= None => known_mines(s) = <<s.cells>>
        /\ (known_safes(s) /= None) <=> (s.count = 0)
        /\ known_safes(s) /= None => known_safes(s) = <<s.cells>>
        /\ (known_mines(s) /= None /\ known_safes(s) /= None)
               => (s.cells = {} /\ s.count = 0)

\* The knowledge base holds an all-mines sentence and a sentence for which
\* both queries return a result.
C19_Witness ==
    /\ \E s \in Sentences : s.cells /= {} /\ known_mines(s) /= None
    /\ \E s \in Sentences : known_mines(s) /= None /\ known_safes(s) /= None

\* C20: across any sequence of add_knowledge, mark_mine, mark_safe,
\* make_safe_move and make_random_move calls, mines, safes and moves_made
\* only grow.
C20_Monotone ==
    [][/\ mines \subseteq mines'
       /\ safes \subseteq safes'
       /\ moves_made \subseteq moves_made']_vars

\* A cell that the driver marked a mine has then been revealed: it is in
\* mines, in safes and in moves_made at once, nothing was taken out.
C20_Witness ==
    /\ pc = "idle"
    /\ op = "add_knowledge"
    /\ mines \cap safes /= {}
    /\ mines \cap moves_made /= {}

====
